---- MODULE Spec2Model ----
(***************************************************************************)
(* Model of app.py: a Streamlit page that uploads a CSV file and forwards  *)
(* a free-text prompt, with the parsed table, to the pandasai engine.      *)
(*                                                                         *)
(* One run of the script (a Streamlit rerun) is the sequence of steps      *)
(*   Startup -> Page -> Col1 -> Col2 -> Dispatch -> Render                 *)
(* and a user interaction (upload, text edit, button press, reload) sets   *)
(* the widget state and starts the next run.                               *)
(*                                                                         *)
(* Python values are records tagged with their runtime type, so that the   *)
(* isinstance cascade of chat_with_csv is a test of the tag.               *)
(***************************************************************************)
EXTENDS Integers, Sequences, FiniteSets, TLC

VARIABLES
    openai_api_key, \* os.getenv("OPENAI_API_KEY"), fixed for the process
    input_csv,      \* widget state of st.file_uploader: None or the file
    query,          \* widget state of st.text_area
    clicked,        \* TRUE in the run a press of st.button started
    pc,             \* position of the script in the current run
    data,           \* script variable data (line 50)
    input_text,     \* script variable input_text (line 56)
    result,         \* script variable result (line 61)
    screen,         \* elements the current run has put on the page, in order
    stdout,         \* lines the current run has printed
    exc,            \* the exception that ended the current run, or None
    calls,          \* history: the calls of chat_with_csv of the current run
    conversions,    \* history: the arguments given to pd.DataFrame(...) in the run
    lastFail        \* history: the last call whose conversion raised (None: no
                    \* such call yet), and whether the one before it had the same reply

vars == << openai_api_key, input_csv, query, clicked, pc, data, input_text,
           result, screen, stdout, exc, calls, conversions, lastFail >>

(***************************************************************************)
(* Bounds                                                                  *)
(***************************************************************************)
\* longest list the engine replies with
MaxLen == 2

(***************************************************************************)
(* Python values                                                           *)
(***************************************************************************)
None == [type |-> "NoneType"]

Unbound == [type |-> "unbound"]

PyStr(s) == [type |-> "str", s |-> s]

PyInt(n) == [type |-> "int", n |-> n]

NaN == [type |-> "float", repr |-> "nan"]

PyList(items) == [type |-> "list", items |-> items]

\* a dict keeps insertion order: a sequence of <<key, value>> with distinct keys
PyDict(kv) == [type |-> "dict", kv |-> kv]

\* obj names the object: "df" the table parsed from the upload, "reply" a table
\* the engine built, "result_df" the table built on line 28
Frame(obj, columns, rows) ==
    [type |-> "DataFrame", obj |-> obj, columns |-> columns, rows |-> rows]

Exception(cls, at) == [type |-> "exception", cls |-> cls, at |-> at]

UploadedFile(name, header, body) ==
    [type |-> "UploadedFile", name |-> name, header |-> header, body |-> body]

isinstance(v, t) == v.type = t

IsScalar(v) == v.type \in {"str", "int", "float", "NoneType"}

\* Python truth value of None and of a str
Truthy(v) ==
    CASE v.type = "NoneType" -> FALSE
      [] v.type = "str" -> v.s # ""
      [] OTHER -> TRUE

SeqsUpTo(S, n) == UNION { [1..k -> S] : k \in 0..n }

(***************************************************************************)
(* pandas: read_csv and the DataFrame constructor                          *)
(***************************************************************************)
\* pd.read_csv of a file given as its header and its rows (rectangular files
\* only): a file with no columns to parse raises EmptyDataError
read_csv(f) ==
    IF f.header = << >>
    THEN [ok |-> FALSE, exc |-> Exception("EmptyDataError", "pd.read_csv")]
    ELSE [ok |-> TRUE, df |-> Frame("df", f.header, f.body)]

Keys(d) == [i \in 1..Len(d.kv) |-> d.kv[i][1]]

HasKey(d, k) == \E i \in 1..Len(d.kv) : d.kv[i][1] = k

Get(d, k) == d.kv[CHOOSE i \in 1..Len(d.kv) : d.kv[i][1] = k][2]

InSeq(x, s) == \E i \in 1..Len(s) : s[i] = x

RECURSIVE AppendNew(_, _)
AppendNew(acc, ks) ==
    IF ks = << >> THEN acc
    ELSE AppendNew(IF InSeq(Head(ks), acc) THEN acc ELSE Append(acc, Head(ks)),
                   Tail(ks))

\* the keys of the records, each once, in the order of first appearance
RECURSIVE ColumnsOf(_, _)
ColumnsOf(items, acc) ==
    IF items = << >> THEN acc
    ELSE ColumnsOf(Tail(items), AppendNew(acc, Keys(Head(items))))

\* pd.DataFrame(list): the first item decides how the list is read
DataFrameFromList(items) ==
    IF items = << >>
    THEN [ok |-> TRUE, df |-> Frame("result_df", << >>, << >>)]
    ELSE IF isinstance(items[1], "dict")
    THEN IF \E i \in 1..Len(items) : ~isinstance(items[i], "dict")
         THEN [ok |-> FALSE, exc |-> Exception("AttributeError", "pd.DataFrame")]
         ELSE LET cols == ColumnsOf(items, << >>)
              IN  [ok |-> TRUE,
                   df |-> Frame("result_df", cols,
                                [i \in 1..Len(items) |->
                                    [j \in 1..Len(cols) |->
                                        IF HasKey(items[i], cols[j])
                                        THEN Get(items[i], cols[j])
                                        ELSE NaN]])]
    ELSE [ok |-> TRUE,
          df |-> Frame("result_df", << "0" >>,
                       [i \in 1..Len(items) |-> << items[i] >>])]

\* pd.DataFrame(dict): the keys are the columns; list values must agree in
\* length and scalar values are broadcast; scalars alone give no index
DataFrameFromDict(kv) ==
    LET lists == { i \in 1..Len(kv) : isinstance(kv[i][2], "list") }
        lens  == { Len(kv[i][2].items) : i \in lists }
    IN  IF kv = << >>
        THEN [ok |-> TRUE, df |-> Frame("result_df", << >>, << >>)]
        ELSE IF lists = {} \/ Cardinality(lens) > 1
        THEN [ok |-> FALSE, exc |-> Exception("ValueError", "pd.DataFrame")]
        ELSE LET n == CHOOSE n \in lens : TRUE
             IN  [ok |-> TRUE,
                  df |-> Frame("result_df", [j \in 1..Len(kv) |-> kv[j][1]],
                               [r \in 1..n |->
                                   [j \in 1..Len(kv) |->
                                       IF j \in lists THEN kv[j][2].items[r]
                                       ELSE kv[j][2]]])]

\* pd.DataFrame(None) is the empty table; any other scalar is refused
pd_DataFrame(x) ==
    CASE isinstance(x, "list") -> DataFrameFromList(x.items)
      [] isinstance(x, "dict") -> DataFrameFromDict(x.kv)
      [] isinstance(x, "NoneType") ->
            [ok |-> TRUE, df |-> Frame("result_df", << >>, << >>)]
      [] OTHER -> [ok |-> FALSE, exc |-> Exception("ValueError", "pd.DataFrame")]

(***************************************************************************)
(* The inputs: the environment, the files, the prompts, the engine         *)
(***************************************************************************)
\* os.getenv gives None for an unset variable; a variable set to "" is falsy
ApiKeys == { None, PyStr(""), PyStr("sk-test") }

Files ==
    { UploadedFile("two_rows.csv", << "a", "b" >>,
                   << << PyInt(1), PyInt(2) >>, << PyInt(3), PyInt(4) >> >>),
      UploadedFile("header_only.csv", << "a" >>, << >>),
      UploadedFile("empty.csv", << >>, << >>) }

\* st.text_area gives "" until the user types
Prompts == { PyStr(""), PyStr("how many rows?") }

\* the items of a list reply: records (uniform and not) and a bare number
Items ==
    { PyDict(<< << "a", PyInt(1) >>, << "b", PyInt(2) >> >>),
      PyDict(<< << "a", PyInt(3) >>, << "b", PyInt(4) >> >>),
      PyDict(<< << "b", PyInt(2) >> >>),
      PyInt(7) }

ListReplies == { PyList(s) : s \in SeqsUpTo(Items, MaxLen) }

DictReplies ==
    { PyDict(<< >>),
      PyDict(<< << "a", PyInt(1) >> >>),
      PyDict(<< << "a", PyInt(1) >>, << "b", PyInt(2) >> >>),
      PyDict(<< << "a", PyList(<< PyInt(1), PyInt(3) >>) >>,
                << "b", PyList(<< PyInt(2), PyInt(4) >>) >> >>),
      PyDict(<< << "a", PyList(<< PyInt(1), PyInt(3) >>) >>,
                << "b", PyList(<< PyInt(2) >>) >> >>),
      PyDict(<< << "a", PyList(<< PyInt(1), PyInt(3) >>) >>,
                << "b", PyInt(2) >> >>) }

ScalarReplies == { PyStr("42"), PyStr(""), PyInt(42), None }

\* the engine may hand back the table it was given, or one it built
FrameReplies(df) ==
    { df,
      Frame("reply", << >>, << >>),
      Frame("reply", << "a", "b" >>, << << PyInt(1), PyInt(2) >> >>) }

EngineErrors ==
    { Exception("APIKeyNotFoundError", "OpenAi"),
      Exception("ValueError", "SmartDataframe"),
      Exception("APIConnectionError", "pandas_ai.chat") }

\* what lines 18-20 end in: an exception of one of the three calls, or a reply
EngineOutcomes(df, prompt) ==
    { [exc |-> e, reply |-> Unbound] : e \in EngineErrors }
    \cup { [exc |-> None, reply |-> r] :
             r \in FrameReplies(df) \cup ListReplies \cup DictReplies
                   \cup ScalarReplies }

(***************************************************************************)
(* chat_with_csv                                                           *)
(***************************************************************************)
\* how a call ends: exc is the exception it raised (None: it returned ret);
\* printed are the lines it printed, conversions the arguments of pd.DataFrame
Returns(ret, printed, conv) ==
    [exc |-> None, ret |-> ret, printed |-> printed, conversions |-> conv]

Raises(e, printed, conv) ==
    [exc |-> e, ret |-> Unbound, printed |-> printed, conversions |-> conv]

\* Normalize with "raise" in the except branch
NormalizeReraise(reply) ==
    IF isinstance(reply, "DataFrame")
    THEN Returns(reply, << >>, << >>)
    ELSE IF isinstance(reply, "list") \/ isinstance(reply, "dict")
    THEN LET c == pd_DataFrame(reply)
         IN  IF c.ok
             THEN Returns(c.df, << >>, << reply >>)
             ELSE Raises(c.exc, << "Could Not Convert Result To DataFrame" >>,
                         << reply >>)
    ELSE Returns(reply, << >>, << >>)

\* Normalize with the first branch returning pd.DataFrame(result), a copy
NormalizeCopy(reply) ==
    IF isinstance(reply, "DataFrame")
    THEN Returns(Frame("result_df", reply.columns, reply.rows), << >>, << reply >>)
    ELSE IF isinstance(reply, "list") \/ isinstance(reply, "dict")
    THEN LET c == pd_DataFrame(reply)
         IN  IF c.ok
             THEN Returns(c.df, << >>, << reply >>)
             ELSE Returns(reply, << "Could Not Convert Result To DataFrame" >>,
                          << reply >>)
    ELSE Returns(reply, << >>, << >>)

\* Normalize without "return result_df" on line 30
NormalizeNoReturn(reply) ==
    IF isinstance(reply, "DataFrame")
    THEN Returns(reply, << >>, << >>)
    ELSE IF isinstance(reply, "list") \/ isinstance(reply, "dict")
    THEN LET c == pd_DataFrame(reply)
         IN  IF c.ok
             THEN Returns(reply, << >>, << reply >>)
             ELSE Returns(reply, << "Could Not Convert Result To DataFrame" >>,
                          << reply >>)
    ELSE Returns(reply, << >>, << >>)

\* Normalize with a plain "else" on line 25: every other reply is converted
NormalizeConvertAll(reply) ==
    IF isinstance(reply, "DataFrame")
    THEN Returns(reply, << >>, << >>)
    ELSE LET c == pd_DataFrame(reply)
         IN  IF c.ok
             THEN Returns(c.df, << >>, << reply >>)
             ELSE Returns(reply, << "Could Not Convert Result To DataFrame" >>,
                          << reply >>)

\* Normalize with the except branch returning the message, as in the listing
\* of lines 96-103
NormalizeErrorString(reply) ==
    IF isinstance(reply, "DataFrame")
    THEN Returns(reply, << >>, << >>)
    ELSE IF isinstance(reply, "list") \/ isinstance(reply, "dict")
    THEN LET c == pd_DataFrame(reply)
         IN  IF c.ok
             THEN Returns(c.df, << >>, << reply >>)
             ELSE Returns(PyStr("Could not convert to DataFrame: " \o c.exc.cls),
                          << >>, << reply >>)
    ELSE Returns(reply, << >>, << >>)

\* lines 22-36: the isinstance cascade on the engine's reply
Normalize(reply) ==
    IF isinstance(reply, "DataFrame")
    THEN Returns(reply, << >>, << >>)
    ELSE IF isinstance(reply, "list") \/ isinstance(reply, "dict")
    THEN LET c == pd_DataFrame(reply)
         IN  IF c.ok
             THEN Returns(c.df, << >>, << reply >>)
             ELSE Returns(reply, << "Could Not Convert Result To DataFrame" >>,
                          << reply >>)
    ELSE Returns(reply, << >>, << >>)

\* the engine replied with a list or a dict that pd.DataFrame refuses
ConversionFails(outcome) ==
    /\ outcome.exc = None
    /\ isinstance(outcome.reply, "list") \/ isinstance(outcome.reply, "dict")
    /\ ~pd_DataFrame(outcome.reply).ok

\* chat_with_csv with the whole body inside the try
chat_with_csvGuarded(df, prompt, outcome) ==
    IF outcome.exc # None
    THEN Returns(PyStr("Error: " \o outcome.exc.cls), << >>, << >>)
    ELSE Normalize(outcome.reply)

\* lines 17-36: the engine calls are outside the try
chat_with_csv(df, prompt, outcome) ==
    IF outcome.exc # None
    THEN Raises(outcome.exc, << >>, << >>)
    ELSE Normalize(outcome.reply)

(***************************************************************************)
(* The page                                                                *)
(***************************************************************************)
Element(col, widget, body) == [col |-> col, widget |-> widget, body |-> body]

OnScreen(widget) == \E i \in 1..Len(screen) : screen[i].widget = widget

\* line 13: not openai_api_key
KeyMissing(key) == ~Truthy(key)

\* ShouldDispatch with "if input_text:" on line 58
ShouldDispatchNonEmpty(text, pressed) == Truthy(text) /\ pressed

\* lines 58-59: the button is drawn, and read, only if input_text is not None
ShouldDispatch(text, pressed) == text # None /\ pressed

\* RenderResult with st.success in an else branch, as in the listing of
\* lines 120-123
RenderResultElse(res) ==
    IF isinstance(res, "DataFrame")
    THEN << Element("col2", "dataframe", res) >>
    ELSE << Element("col2", "success", res) >>

\* lines 63-65
RenderResult(res) ==
    (IF isinstance(res, "DataFrame")
     THEN << Element("col2", "dataframe", res) >> ELSE << >>)
    \o << Element("col2", "success", res) >>

Init ==
    /\ openai_api_key \in ApiKeys
    /\ input_csv = None
    /\ query = PyStr("")
    /\ clicked = FALSE
    /\ pc = "start"
    /\ data = Unbound
    /\ input_text = Unbound
    /\ result = Unbound
    /\ screen = << >>
    /\ stdout = << >>
    /\ exc = None
    /\ calls = << >>
    /\ conversions = << >>
    /\ lastFail = None

\* Startup without st.stop() on line 15
StartupNoStop ==
    /\ pc = "start"
    /\ screen' = IF KeyMissing(openai_api_key)
                 THEN << Element("main", "error",
                    PyStr("OpenAI API key missing. Please check your .env file.")) >>
                 ELSE screen
    /\ pc' = "page"
    /\ UNCHANGED << openai_api_key, input_csv, query, clicked, data, input_text,
                    result, stdout, exc, calls, conversions, lastFail >>

\* lines 9-15
Startup ==
    /\ pc = "start"
    /\ IF KeyMissing(openai_api_key)
       THEN /\ screen' = << Element("main", "error",
                    PyStr("OpenAI API key missing. Please check your .env file.")) >>
            /\ pc' = "stopped"
       ELSE /\ screen' = screen
            /\ pc' = "page"
    /\ UNCHANGED << openai_api_key, input_csv, query, clicked, data, input_text,
                    result, stdout, exc, calls, conversions, lastFail >>

\* lines 39-45
Page ==
    /\ pc = "page"
    /\ screen' = screen \o
          << Element("main", "title", PyStr("Chat With CSV Using LLm Model")),
             Element("main", "file_uploader", PyStr("Upload Your CSV File")) >>
    /\ pc' = IF input_csv # None THEN "col1" ELSE "done"
    /\ UNCHANGED << openai_api_key, input_csv, query, clicked, data, input_text,
                    result, stdout, exc, calls, conversions, lastFail >>

\* lines 46-51: read_csv is not guarded
Col1 ==
    /\ pc = "col1"
    /\ LET r == read_csv(input_csv)
           info == Element("col1", "info", PyStr("CSV File Uploaded Successfully"))
       IN  IF r.ok
           THEN /\ data' = r.df
                /\ screen' = screen \o << info, Element("col1", "dataframe", r.df) >>
                /\ exc' = exc
                /\ pc' = "col2"
           ELSE /\ data' = data
                /\ screen' = Append(screen, info)
                /\ exc' = r.exc
                /\ pc' = "crashed"
    /\ UNCHANGED << openai_api_key, input_csv, query, clicked, input_text,
                    result, stdout, calls, conversions, lastFail >>

\* lines 53-60
Col2 ==
    /\ pc = "col2"
    /\ input_text' = query
    /\ LET shown == << Element("col2", "info", PyStr("Chat Below With Your Dataset")),
                       Element("col2", "text_area", PyStr("Enter Your Query...")) >>
                    \o (IF query # None
                        THEN << Element("col2", "button", PyStr("Chat With CSV")) >>
                        ELSE << >>)
       IN  IF ShouldDispatch(query, clicked)
           THEN /\ screen' = Append(screen \o shown,
                        Element("col2", "info", PyStr("Your Query: " \o query.s)))
                /\ pc' = "call"
           ELSE /\ screen' = screen \o shown
                /\ pc' = "done"
    /\ UNCHANGED << openai_api_key, input_csv, query, clicked, data, result,
                    stdout, exc, calls, conversions, lastFail >>

\* line 61, with lines 17-36
Dispatch ==
    /\ pc = "call"
    /\ \E o \in EngineOutcomes(data, input_text) :
          LET r == chat_with_csv(data, input_text, o)
              call == [type |-> "call", df |-> data, prompt |-> input_text,
                       outcome |-> o, exc |-> r.exc, ret |-> r.ret,
                       printed |-> r.printed, conversions |-> r.conversions]
          IN  /\ calls' = Append(calls, call)
              /\ conversions' = conversions \o r.conversions
              /\ stdout' = stdout \o r.printed
              /\ lastFail' =
                    IF ConversionFails(o)
                    THEN [call |-> call,
                          repeat |-> /\ lastFail # None
                                     /\ lastFail.call.outcome = o]
                    ELSE lastFail
              /\ IF r.exc # None
                 THEN /\ exc' = r.exc
                      /\ result' = result
                      /\ pc' = "crashed"
                 ELSE /\ exc' = exc
                      /\ result' = r.ret
                      /\ pc' = "render"
    /\ UNCHANGED << openai_api_key, input_csv, query, clicked, data, input_text,
                    screen >>

\* lines 63-65
Render ==
    /\ pc = "render"
    /\ screen' = screen \o RenderResult(result)
    /\ pc' = "done"
    /\ UNCHANGED << openai_api_key, input_csv, query, clicked, data, input_text,
                    result, stdout, exc, calls, conversions, lastFail >>

(***************************************************************************)
(* The user: every interaction starts a new run of the script              *)
(***************************************************************************)
RunOver == pc \in {"done", "crashed"}

Rerun ==
    /\ pc' = "start"
    /\ data' = Unbound
    /\ input_text' = Unbound
    /\ result' = Unbound
    /\ screen' = << >>
    /\ stdout' = << >>
    /\ exc' = None
    /\ calls' = << >>
    /\ conversions' = << >>
    /\ UNCHANGED << openai_api_key, lastFail >>

Upload ==
    /\ RunOver /\ OnScreen("file_uploader")
    /\ \E f \in Files : f # input_csv /\ input_csv' = f
    /\ clicked' = FALSE
    /\ UNCHANGED query
    /\ Rerun

RemoveFile ==
    /\ RunOver /\ OnScreen("file_uploader")
    /\ input_csv # None
    /\ input_csv' = None
    /\ clicked' = FALSE
    /\ UNCHANGED query
    /\ Rerun

EditText ==
    /\ RunOver /\ OnScreen("text_area")
    /\ \E t \in Prompts : t # query /\ query' = t
    /\ clicked' = FALSE
    /\ UNCHANGED input_csv
    /\ Rerun

PressButton ==
    /\ RunOver /\ OnScreen("button")
    /\ clicked' = TRUE
    /\ UNCHANGED << input_csv, query >>
    /\ Rerun

\* a reload of the page: a new session, with the widgets in their defaults
Reload ==
    /\ pc \in {"done", "crashed", "stopped"}
    /\ input_csv' = None
    /\ query' = PyStr("")
    /\ clicked' = FALSE
    /\ Rerun

Next ==
    \/ Startup
    \/ Page
    \/ Col1
    \/ Col2
    \/ Dispatch
    \/ Render
    \/ Upload
    \/ RemoveFile
    \/ EditText
    \/ PressButton
    \/ Reload

Spec == Init /\ [][Next]_vars

(***************************************************************************)
(* Properties                                                              *)
(***************************************************************************)
\* what lines 64-65 have put on the page: the renderings of the result
ResultShown ==
    LET IsResult(e) == e.col = "col2" /\ e.widget \in {"dataframe", "success"}
    IN  SelectSeq(screen, IsResult)

Replied(call) == call.outcome.exc = None

\* C1: whenever chat_with_csv returns, the value is a DataFrame or a scalar or
\* text; it is never a raw list or dict, also when the conversion failed.
C1_ReturnIsTableOrScalar ==
    \A i \in 1..Len(calls) :
        calls[i].exc = None =>
            isinstance(calls[i].ret, "DataFrame") \/ IsScalar(calls[i].ret)

\* C2: when the reply is a list or dict whose conversion raises, chat_with_csv
\* does not raise but returns, and two calls with the same such reply end the
\* same way, with the same value.
C2_ConversionFailureReturns ==
    /\ [](\A i \in 1..Len(calls) :
            ConversionFails(calls[i].outcome) =>
                calls[i].exc = None /\ calls[i].ret # Unbound)
    /\ [][ (/\ lastFail # None
            /\ lastFail' # None
            /\ lastFail'.call.outcome.reply = lastFail.call.outcome.reply)
           => (/\ lastFail'.call.exc = lastFail.call.exc
               /\ lastFail'.call.ret = lastFail.call.ret) ]_vars

\* a second call with the same failing reply, and another prompt, has returned
C2_Witness ==
    /\ pc = "done"
    /\ Len(calls) = 1
    /\ ConversionFails(calls[1].outcome)
    /\ calls[1].exc = None
    /\ lastFail # None
    /\ lastFail.repeat
    /\ lastFail.call = calls[1]

\* C3: a reply that is a DataFrame is returned as it is, the same object, and
\* pd.DataFrame is not called, whatever the table and the prompt.
C3_TableReturnedUnchanged ==
    \A i \in 1..Len(calls) :
        (Replied(calls[i]) /\ isinstance(calls[i].outcome.reply, "DataFrame")) =>
            /\ calls[i].exc = None
            /\ calls[i].ret = calls[i].outcome.reply
            /\ calls[i].conversions = << >>
            /\ conversions = << >>

\* the empty table, asked with the empty prompt, has come back
C3_Witness ==
    /\ pc = "done"
    /\ Len(calls) = 1
    /\ Replied(calls[1])
    /\ isinstance(calls[1].outcome.reply, "DataFrame")
    /\ calls[1].outcome.reply.rows = << >>
    /\ calls[1].prompt = PyStr("")
    /\ result = calls[1].outcome.reply

\* C4: a list or dict reply that pd.DataFrame accepts is returned as the table
\* built from it, not as the list or dict: for a list of records with the same
\* keys the columns are those keys and row i holds record i's values; for a
\* dict the columns are its keys; [{a:1,b:2},{a:3,b:4}] gives a,b / 1,2 / 3,4.
C4_ConvertedTableReturned ==
    \A i \in 1..Len(calls) :
        LET reply == calls[i].outcome.reply
            ret   == calls[i].ret
        IN  (/\ Replied(calls[i])
             /\ isinstance(reply, "list") \/ isinstance(reply, "dict")
             /\ pd_DataFrame(reply).ok) =>
               /\ calls[i].exc = None
               /\ isinstance(ret, "DataFrame")
               /\ ret.obj = "result_df"
               /\ calls[i].conversions = << reply >>
               /\ (/\ isinstance(reply, "list")
                   /\ reply.items # << >>
                   /\ \A k \in 1..Len(reply.items) :
                        /\ isinstance(reply.items[k], "dict")
                        /\ Keys(reply.items[k]) = Keys(reply.items[1])) =>
                     /\ ret.columns = Keys(reply.items[1])
                     /\ Len(ret.rows) = Len(reply.items)
                     /\ \A k \in 1..Len(reply.items) :
                          /\ Len(ret.rows[k]) = Len(ret.columns)
                          /\ \A j \in 1..Len(ret.columns) :
                               ret.rows[k][j] = Get(reply.items[k], ret.columns[j])
               /\ isinstance(reply, "dict") => ret.columns = Keys(reply)
               /\ (reply = PyList(<< PyDict(<< << "a", PyInt(1) >>, << "b", PyInt(2) >> >>),
                                     PyDict(<< << "a", PyInt(3) >>, << "b", PyInt(4) >> >>) >>)) =>
                     /\ ret.columns = << "a", "b" >>
                     /\ ret.rows = << << PyInt(1), PyInt(2) >>,
                                      << PyInt(3), PyInt(4) >> >>

\* the reply [{a:1,b:2},{a:3,b:4}] has come back as a table
C4_Witness ==
    /\ pc = "done"
    /\ Len(calls) = 1
    /\ calls[1].outcome.reply =
          PyList(<< PyDict(<< << "a", PyInt(1) >>, << "b", PyInt(2) >> >>),
                    PyDict(<< << "a", PyInt(3) >>, << "b", PyInt(4) >> >>) >>)
    /\ isinstance(result, "DataFrame")
    /\ Len(result.rows) = 2

\* C5: a reply that is neither DataFrame nor list nor dict is returned as it
\* is, and pd.DataFrame is not called.
C5_ScalarReturnedUnchanged ==
    \A i \in 1..Len(calls) :
        (/\ Replied(calls[i])
         /\ ~isinstance(calls[i].outcome.reply, "DataFrame")
         /\ ~isinstance(calls[i].outcome.reply, "list")
         /\ ~isinstance(calls[i].outcome.reply, "dict")) =>
            /\ calls[i].exc = None
            /\ calls[i].ret = calls[i].outcome.reply
            /\ calls[i].conversions = << >>
            /\ conversions = << >>
            /\ stdout = << >>

\* the text "42" has come back
C5_Witness ==
    /\ pc = "done"
    /\ Len(calls) = 1
    /\ calls[1].outcome.reply = PyStr("42")
    /\ result = PyStr("42")

\* C6: with no API key the run shows the error and stops: the uploader, the
\* text area and the button are never shown, no table is built and
\* chat_with_csv is never called.
C6_NoKeyHalts ==
    ~Truthy(openai_api_key) =>
        /\ pc \in {"start", "stopped"}
        /\ \A i \in 1..Len(screen) : screen[i].widget = "error"
        /\ pc = "stopped" => Len(screen) = 1
        /\ pc = "start" => screen = << >>
        /\ data = Unbound
        /\ result = Unbound
        /\ calls = << >>
        /\ conversions = << >>

\* a run without a key has stopped on the error
C6_Witness ==
    /\ ~Truthy(openai_api_key)
    /\ pc = "stopped"
    /\ OnScreen("error")

\* C7: an exception of the engine (OpenAi, SmartDataframe, chat) leaves
\* chat_with_csv and ends the run: nothing catches it and no result is
\* rendered. The only exceptions that leave chat_with_csv are the engine's.
C7_EngineErrorPropagates ==
    \A i \in 1..Len(calls) :
        /\ ~Replied(calls[i]) =>
              /\ calls[i].exc = calls[i].outcome.exc
              /\ pc = "crashed"
              /\ exc = calls[i].outcome.exc
              /\ result = Unbound
              /\ ResultShown = << >>
              /\ stdout = << >>
        /\ calls[i].exc # None => calls[i].exc = calls[i].outcome.exc

\* a failure of pandas_ai.chat has ended a run
C7_Witness ==
    /\ pc = "crashed"
    /\ Len(calls) = 1
    /\ exc = Exception("APIConnectionError", "pandas_ai.chat")

\* C8: a run calls chat_with_csv at most once, only if the button started it
\* and a file is uploaded, with the table parsed from that file and the text
\* of the text area; a run the button started calls it, the empty prompt too.
C8_OneDispatchPerPress ==
    /\ Len(calls) <= 1
    /\ calls # << >> =>
          /\ clicked
          /\ input_csv # None
          /\ read_csv(input_csv).ok
          /\ calls[1].df = read_csv(input_csv).df
          /\ calls[1].prompt = query
    /\ (pc \in {"done", "crashed"} /\ clicked) => Len(calls) = 1
    /\ (pc \in {"done", "crashed"} /\ ~clicked) => calls = << >>

\* the button was pressed on the empty prompt, and the call was made
C8_Witness ==
    /\ pc = "done"
    /\ clicked
    /\ query = PyStr("")
    /\ Len(calls) = 1
    /\ calls[1].prompt = PyStr("")

====
